---- MODULE Spec2Model ----
(***************************************************************************)
(* Model of the recommendation micro-services:                             *)
(*   client_service.get_recommendations   (cache-aside over Redis)         *)
(*   recommendation_service.content_recommend / recommend_content_based    *)
(*   user_service.get_user / get_purchase / update_purchase /              *)
(*   delete_purchase / delete_user         (cache-aside over Redis, Mongo) *)
(* Redis is modelled by its GET / SETEX protocol with a clock, the         *)
(* interaction feed by the list of rows /interactions returns, Mongo by    *)
(* the documents of its two collections.                                   *)
(***************************************************************************)
EXTENDS Integers, Sequences, FiniteSets, TLC

VARIABLES now, ticks, store, feed, reqs, started, wcount, faults, rk, us

vars == <<now, ticks, store, feed, reqs, started, wcount, faults, rk, us>>

(* ------------------------------ bounds -------------------------------- *)
MaxReqs == 2
MaxTicks == 1
MaxFaults == 1
MaxN == 3
MaxK == 3

(* ------------------------- program constants -------------------------- *)
(* Expiry times a slip could have written instead of 3600.                 *)
TTL_minute == 3600 \div 60
TTL_day == 24 * 3600

(* redis_client.setex(cache_key, 3600, ...)                                *)
TTL == 3600
DefaultNum == 5
DefaultTop == 5

(* ------------------------------ helpers ------------------------------- *)
Max(a, b) == IF a >= b THEN a ELSE b
Min(a, b) == IF a <= b THEN a ELSE b

(* Integer square root (Newton's iteration from the largest root a       *)
(* machine integer has).                                                   *)
MaxRoot == 46340

RECURSIVE isqrt_from(_, _)
isqrt_from(n, x) ==
    LET y == (x + n \div x) \div 2
    IN IF y >= x THEN x ELSE isqrt_from(n, y)

isqrt(n) == IF n <= 0 THEN 0 ELSE isqrt_from(n, MaxRoot)

(* The slice left in ascending order (the [::-1] forgotten).               *)
Reverse_not(s) == [i \in 1..Len(s) |-> s[i]]

Reverse(s) == [i \in 1..Len(s) |-> s[Len(s) + 1 - i]]

(* The function f with its value at every argument worked out (once).      *)
Table(f) == f @@ f

(* ===================== recommendation_service.py ====================== *)

(* The items the feed can mention: product id, category, tags.  Products   *)
(* 10 and 11 share one combined-feature string.                            *)
Catalog ==
    { [product_id |-> 10, category |-> "books", tags |-> "scifi"],
      [product_id |-> 11, category |-> "books", tags |-> "scifi"],
      [product_id |-> 20, category |-> "toys",  tags |-> "kids"],
      [product_id |-> 30, category |-> "books", tags |-> "kids"] }

Item(p) == CHOOSE it \in Catalog : it.product_id = p

Row(u, p) == [user_id |-> u, product_id |-> p,
              category |-> Item(p).category, tags |-> Item(p).tags]

(* user_data["combined_features"] = category + " " + tags  (line 104)      *)
combined_features(row) == row.category \o " " \o row.tags

(* The column as it is, duplicates kept (the .unique() forgotten).         *)
unique_not(s) == [i \in 1..Len(s) |-> s[i]]

(* Series.unique(): the distinct values in order of first appearance.      *)
RECURSIVE unique(_)
unique(s) ==
    IF s = <<>> THEN <<>>
    ELSE LET u == unique(SubSeq(s, 1, Len(s) - 1))
             x == s[Len(s)]
         IN IF \E i \in 1..Len(u) : u[i] = x THEN u ELSE Append(u, x)

(* Weights and scores are fixed-point numbers: Unit stands for 1.0 in a    *)
(* weight, Unit * Unit for 1.0 in a similarity score.                      *)
Unit == 10000

(* ln(k) for k = 1..8, in units of 1 / Unit.                               *)
LnTable == <<0, 6931, 10986, 13863, 16094, 17918, 19459, 20794>>
Ln(k) == LnTable[k]

(* The words a vocabulary can hold: those of the catalog (none is an       *)
(* English stop word, each has two letters or more).                       *)
Vocab == {"books", "toys", "scifi", "kids"}

(* The combined-feature strings of the catalog, and the tokens of each     *)
(* (str.split at the blank): its category and its tags.                    *)
Features == {it.category \o " " \o it.tags : it \in Catalog}

Tokens ==
    [f \in Features |->
        LET it == CHOOSE it \in Catalog : it.category \o " " \o it.tags = f
        IN <<it.category, it.tags>>]

TokensOf(f) == Tokens[f]

WordsOf(f) == LET t == TokensOf(f) IN {t[i] : i \in 1..Len(t)}

(* Term frequency: how often word w occurs in f.                           *)
WordCount(f, w) == LET t == TokensOf(f) IN Cardinality({i \in 1..Len(t) : t[i] = w})

(* Number of documents of the corpus that hold word w.                     *)
DocFreq(w, docs) == Cardinality({i \in 1..Len(docs) : w \in WordsOf(docs[i])})

(* TfidfVectorizer.fit (smooth_idf): idf(w) = ln((1 + n) / (1 + df(w))) + 1 *)
(* for the words of the corpus; a word the corpus does not hold is not in   *)
(* the vocabulary and weighs nothing.                                       *)
fit(docs) ==
    Table([w \in Vocab |->
              LET df == DocFreq(w, docs)
              IN IF df = 0 THEN 0 ELSE Ln(1 + Len(docs)) - Ln(1 + df) + Unit])

RECURSIVE SumSq(_, _)
SumSq(v, ws) ==
    IF ws = {} THEN 0
    ELSE LET w == CHOOSE w \in ws : TRUE
         IN v[w] * v[w] + SumSq(v, ws \ {w})

(* TfidfVectorizer.transform of one document with the fitted idf weights:  *)
(* tf * idf per word, the row scaled to Euclidean length 1 (norm="l2").    *)
tfidf_row(f, idf) ==
    LET v    == Table([w \in Vocab |-> WordCount(f, w) * idf[w]])
        norm == isqrt(SumSq(v, Vocab))
    IN IF norm = 0 THEN v ELSE Table([w \in Vocab |-> (v[w] * Unit) \div norm])

(* The corpora a vectorizer can be fitted on: the lists of distinct        *)
(* combined-feature strings.                                               *)
Corpora ==
    {docs \in UNION {[1..n -> Features] : n \in 0..Cardinality(Features)} :
        \A i, j \in 1..Len(docs) : i # j => docs[i] # docs[j]}

(* The row of each feature under the vectorizer fitted on each corpus      *)
(* (computed once).                                                        *)
Transformed ==
    Table([docs \in Corpora |-> Table([f \in Features |-> tfidf_row(f, fit(docs))])])

(* tfidf_vectorizer.transform of document f; the fitted vectorizer is      *)
(* given by the corpus it was fitted on.                                   *)
transform(f, tfidf_vectorizer) ==
    IF tfidf_vectorizer \in DOMAIN Transformed
    THEN Transformed[tfidf_vectorizer][f]
    ELSE tfidf_row(f, fit(tfidf_vectorizer))

(* fit_transform over the unique combined features: one row per feature.   *)
fit_transform(docs) == Table([i \in 1..Len(docs) |-> transform(docs[i], docs)])

RECURSIVE VecSum(_, _)
VecSum(rows, i) ==
    IF i > Len(rows) THEN [w \in Vocab |-> 0]
    ELSE LET rest == VecSum(rows, i + 1)
         IN Table([w \in Vocab |-> rows[i][w] + rest[w]])

(* user_data[user_data["user_id"] == user_id]  (line 52)                   *)
RECURSIVE rows_of(_, _, _)
rows_of(user_id, user_data, i) ==
    IF i > Len(user_data) THEN <<>>
    ELSE (IF user_data[i].user_id = user_id THEN <<user_data[i]>> ELSE <<>>)
         \o rows_of(user_id, user_data, i + 1)

user_interactions(user_id, user_data) == rows_of(user_id, user_data, 1)

(* create_user_profile: the mean of the user's rows, transformed with the  *)
(* fitted vectorizer; no rows is an error (transform of zero samples, or   *)
(* the mean of nothing, raises).                                           *)
create_user_profile(user_id, user_data, tfidf_vectorizer) ==
    LET ui   == user_interactions(user_id, user_data)
        rows == Table([i \in 1..Len(ui) |-> transform(combined_features(ui[i]), tfidf_vectorizer)])
        s    == VecSum(rows, 1)
    IN IF Len(ui) = 0 THEN [err |-> TRUE, vec |-> [w \in Vocab |-> 0]]
       ELSE [err |-> FALSE, vec |-> Table([w \in Vocab |-> s[w] \div Len(ui)])]

RECURSIVE Dot(_, _, _)
Dot(a, b, ws) ==
    IF ws = {} THEN 0
    ELSE LET w == CHOOSE w \in ws : TRUE
         IN a[w] * b[w] + Dot(a, b, ws \ {w})

(* linear_kernel(user_profile, tfidf_matrix)[0]: one dot product per row.  *)
(* A matrix without rows is rejected (ValueError: 0 samples).              *)
linear_kernel(user_profile, tfidf_matrix) ==
    IF Len(tfidf_matrix) = 0 THEN [err |-> TRUE, sim |-> <<>>]
    ELSE [err |-> FALSE,
          sim |-> Table([i \in 1..Len(tfidf_matrix) |->
                            Dot(user_profile, tfidf_matrix[i], DOMAIN user_profile)])]

(* Two scores closer than this are equal up to the rounding of the         *)
(* arithmetic (of the fixed-point weights here, of the floating-point      *)
(* products in numpy): which of them is the larger is the rounding's       *)
(* choice.  Scores that differ in exact arithmetic differ by far more.     *)
ScoreEps == 20 * Unit

(* similarities.argsort()[0]: the row indices by ascending score.  Every   *)
(* order the sort may return: numpy's default kind is not stable, so rows  *)
(* with equal scores come in any order.  Rows are 1-based here.            *)
argsorts(sim) ==
    LET n == Len(sim)
    IN {a \in Permutations(1..n) :
          \A p, q \in 1..n : p < q => sim[a[p]] <= sim[a[q]] + ScoreEps}

(* a[-k:] with Python's slice rules: a negative start counts from the end  *)
(* and is clamped at 0; -0 is 0, the whole list; a positive start (k < 0)  *)
(* is clamped at the length.                                               *)
SliceStart(n, k) == IF -k < 0 THEN Max(n - k, 0) ELSE Min(-k, n)

TailSlice(a, k) == SubSeq(a, SliceStart(Len(a), k) + 1, Len(a))

(* Lines 79-86 for a given result of argsort.                              *)
recommended_products(order, top_recommendations, unique_combined_features, product_mapping) ==
    LET similar_indices == Reverse(TailSlice(order, top_recommendations))
    IN [j \in 1..Len(similar_indices) |->
          [id   |-> product_mapping[unique_combined_features[similar_indices[j]]],
           name |-> unique_combined_features[similar_indices[j]]]]

(* recommend_content_based, lines 78-86: the call raises (err), or returns *)
(* one of outs, one list per order argsort may give.                       *)
recommend_content_based(user_profile, tfidf_matrix, top_recommendations, unique_combined_features, product_mapping) ==
    LET similarities == linear_kernel(user_profile, tfidf_matrix)
    IN IF similarities.err THEN [err |-> TRUE, outs |-> {}]
       ELSE [err |-> FALSE,
             outs |-> {recommended_products(a, top_recommendations,
                                            unique_combined_features, product_mapping) :
                         a \in argsorts(similarities.sim)}]

(* product_mapping (line 110): a later row overwrites an earlier one.      *)
product_mapping_of(user_data) ==
    LET cf    == Table([i \in 1..Len(user_data) |-> combined_features(user_data[i])])
        feats == {cf[i] : i \in 1..Len(user_data)}
        last(f) == CHOOSE i \in 1..Len(user_data) :
                      /\ cf[i] = f
                      /\ \A j \in (i + 1)..Len(user_data) : cf[j] # f
    IN Table([f \in feats |-> user_data[last(f)].product_id])

(* content_recommend: status 200 with the response body, or 500 when a     *)
(* step raises (fit_transform on an empty corpus, a user without rows).    *)
(* Every answer the call can give: one per order argsort may return.       *)
NoBody == [user_id |-> 0, recommendations |-> <<>>]

content_recommends(user_id, top_recommendations, user_data) ==
    LET cf      == Table([i \in 1..Len(user_data) |-> combined_features(user_data[i])])
        unique_combined_features == unique(cf)
        tfidf_vectorizer == unique_combined_features
        tfidf_matrix == fit_transform(unique_combined_features)
        user_profile == create_user_profile(user_id, user_data, tfidf_vectorizer)
        ranked  == recommend_content_based(user_profile.vec, tfidf_matrix, top_recommendations,
                                           unique_combined_features, product_mapping_of(user_data))
    IN IF Len(unique_combined_features) = 0 \/ user_profile.err \/ ranked.err
       THEN {[status |-> 500, body |-> NoBody]}
       ELSE {[status |-> 200, body |-> [user_id |-> user_id, recommendations |-> recs]] :
                recs \in ranked.outs}

(* The query string the service reads: only top_recommendations is a       *)
(* parameter of content_recommend; any other name is ignored and the       *)
(* default applies.                                                        *)
query_top(params) ==
    IF "top_recommendations" \in DOMAIN params THEN params["top_recommendations"] ELSE DefaultTop

(* ========================= client_service.py ========================== *)

(* json.dumps / json.loads of a response, as a token list.                 *)
Num(n) == [k |-> "num", n |-> n, s |-> ""]
Str(s) == [k |-> "str", n |-> 0, s |-> s]

RECURSIVE dump_recs(_, _)
dump_recs(recs, i) ==
    IF i > Len(recs) THEN <<>>
    ELSE <<Num(recs[i].id), Str(recs[i].name)>> \o dump_recs(recs, i + 1)

(* json.dumps that loses the last recommendation.                          *)
json_dumps_short(obj) ==
    <<Num(obj.user_id)>>
    \o dump_recs(SubSeq(obj.recommendations, 1, Len(obj.recommendations) - 1), 1)

json_dumps(obj) == <<Num(obj.user_id)>> \o dump_recs(obj.recommendations, 1)

(* json.loads that loses the last recommendation.                          *)
json_loads_short(t) ==
    [user_id |-> t[1].n,
     recommendations |-> [i \in 1..(((Len(t) - 1) \div 2) - 1) |->
                             [id |-> t[2 * i].n, name |-> t[2 * i + 1].s]]]

json_loads(t) ==
    [user_id |-> t[1].n,
     recommendations |-> [i \in 1..((Len(t) - 1) \div 2) |->
                             [id |-> t[2 * i].n, name |-> t[2 * i + 1].s]]]

(* cache_key = f"user_recommendations:{user_id}"  (line 64)                *)
cache_key(user_id, num_recommendations) == <<"user_recommendations", user_id>>

(* params={"num_recommendations": num_recommendations}  (line 75)          *)
request_params(num_recommendations) ==
    [p \in {"num_recommendations"} |-> num_recommendations]

ReqUsers == {1, 3}
ReqNums == {1, DefaultNum}
Keys == {cache_key(u, n) : u \in ReqUsers, n \in ReqNums}

(* ------------------------------ Redis --------------------------------- *)
NoEntry == [present |-> FALSE, value |-> <<>>, expires |-> 0, wid |-> 0, at |-> 0]
None == <<>>

(* GET: the value while the key exists and has not expired, else nil.      *)
redis_get(st, key, t) ==
    IF st[key].present /\ t < st[key].expires THEN st[key].value ELSE None

(* SET ... EX ttl NX: a write that leaves a live entry alone.               *)
redis_setex_nx(st, key, ttl, value, t, wid) ==
    IF st[key].present /\ t < st[key].expires THEN st
    ELSE [st EXCEPT ![key] = [present |-> TRUE, value |-> value, expires |-> t + ttl,
                              wid |-> wid, at |-> t]]

(* A write that refreshes the expiry of a live entry and keeps its value.  *)
redis_setex_keep(st, key, ttl, value, t, wid) ==
    IF st[key].present /\ t < st[key].expires
    THEN [st EXCEPT ![key].expires = t + ttl]
    ELSE [st EXCEPT ![key] = [present |-> TRUE, value |-> value, expires |-> t + ttl,
                              wid |-> wid, at |-> t]]

(* SETEX key ttl value at time t (wid: the write's serial number).         *)
redis_setex(st, key, ttl, value, t, wid) ==
    [st EXCEPT ![key] = [present |-> TRUE, value |-> value, expires |-> t + ttl,
                         wid |-> wid, at |-> t]]

(* "if cached_recommendations:" (line 67)                                  *)
is_hit(cached) == cached # None

(* --------------------------- request state ---------------------------- *)
ReqIds == 1..MaxReqs

(* The outcome of client.get: kind "http" is a response with its status,   *)
(* its body, and whether the body is JSON; kind "transport" is no response. *)
NoResp == [kind |-> "none", status |-> 0, body |-> NoBody, json |-> FALSE]
NoResult == [kind |-> "none", status |-> 0, body |-> NoBody]

(* pc, user, num, resp are the handler's state; the other fields record    *)
(* what the request did: path taken, calls made to the service, the entry  *)
(* it saw (seenWid, seenRaw), the newest write to its key at its read      *)
(* (lastWid), the same-key requests in flight at its miss (overlap), and   *)
(* its own write (wid, changed keys, ttl, value).                          *)
IdleReq ==
    [pc |-> "idle", user |-> 0, num |-> 0, path |-> "none",
     seenWid |-> 0, seenRaw |-> None, lastWid |-> 0, overlap |-> {},
     calls |-> 0, resp |-> NoResp,
     wid |-> 0, changed |-> {}, wroteTtl |-> 0, wroteVal |-> None,
     result |-> NoResult]

InFlight(q) == reqs[q].pc \in {"await", "responded"}
KeyOf(q) == cache_key(reqs[q].user, reqs[q].num)

(* An exception no handler catches: FastAPI answers 500.                   *)
Unhandled == [kind |-> "error", status |-> 500, body |-> NoBody]
HTTPException(status_code) == [kind |-> "error", status |-> status_code, body |-> NoBody]
Returned(body) == [kind |-> "ok", status |-> 200, body |-> body]

(* A hit that answers without the cached recommendations.                  *)
on_cached_norecs(cached) ==
    IF is_hit(cached)
    THEN [hit |-> TRUE,
          result |-> Returned([user_id |-> json_loads(cached).user_id, recommendations |-> <<>>])]
    ELSE [hit |-> FALSE, result |-> NoResult]

(* Lines 65-69: what the handler does with the value GET returned.         *)
on_cached(cached) ==
    IF is_hit(cached)
    THEN [hit |-> TRUE, result |-> Returned(json_loads(cached))]
    ELSE [hit |-> FALSE, result |-> NoResult]

(* The handler without raise_for_status: any answer is cached.             *)
on_response_no_raise(resp) ==
    IF resp.kind = "transport" THEN [write |-> FALSE, result |-> Unhandled]
    ELSE [write |-> TRUE, result |-> Returned(resp.body)]

(* Lines 73-85: what the handler does with the outcome of client.get.  A   *)
(* transport failure is an exception the handler does not catch;           *)
(* raise_for_status turns every answer whose status is not 2xx into        *)
(* HTTPStatusError, which becomes an HTTPException with the upstream       *)
(* status; response.json() of a 2xx answer whose body is not JSON raises   *)
(* (uncaught) before setex is called; otherwise the body is cached and     *)
(* returned.                                                               *)
on_response(resp) ==
    IF resp.kind = "transport" THEN [write |-> FALSE, result |-> Unhandled]
    ELSE IF resp.status < 200 \/ resp.status >= 300
    THEN [write |-> FALSE, result |-> HTTPException(resp.status)]
    ELSE IF ~resp.json THEN [write |-> FALSE, result |-> Unhandled]
    ELSE [write |-> TRUE, result |-> Returned(resp.body)]

(* Statuses an upstream failure can carry besides the service's own 500    *)
(* (which content_recommend produces): a 503 from its front.               *)
UpstreamErrors == {503}

(* What a call to the service can end in: the service's own answer (ok),   *)
(* no answer (transport), or an answer of its front, a status without a    *)
(* JSON body.                                                              *)
Outcomes ==
    {[kind |-> "ok", status |-> 200], [kind |-> "transport", status |-> 0]}
    \cup {[kind |-> "front", status |-> e] : e \in UpstreamErrors}

(* Further answers of a front: an empty 204, a redirect.                   *)
FrontStatuses == {204, 302}

OutcomesFront == Outcomes \cup {[kind |-> "front", status |-> e] : e \in FrontStatuses}

(* ========================== user_service.py =========================== *)
(* A Mongo document or the dict a handler was posted: coll names the       *)
(* collection, oid is Mongo's _id (NoId: the dict has none), id is user_id *)
(* of a user and purchase_id of a purchase; the other fields are those of  *)
(* PurchaseData that /interactions and update_purchase read.               *)
NoId == ""
ObjectId == "ObjectId"

NoDoc == [coll |-> "none", oid |-> NoId, id |-> 0, user_id |-> 0, product_id |-> 0, quantity |-> 0]

UserData(user_id) ==
    [coll |-> "user", oid |-> NoId, id |-> user_id, user_id |-> user_id,
     product_id |-> 0, quantity |-> 0]

PurchaseData(purchase_id, product_id, user_id, quantity) ==
    [coll |-> "purchase", oid |-> NoId, id |-> purchase_id, user_id |-> user_id,
     product_id |-> product_id, quantity |-> quantity]

(* insert_one: the document is stored last, with an _id Mongo gives it;    *)
(* no index makes user_id or purchase_id unique.                           *)
Stored(doc) == [doc EXCEPT !.oid = ObjectId]

insert_one(coll, doc) == Append(coll, Stored(doc))

(* Position of the first document with the id (0: none).                   *)
FirstMatch(coll, id) ==
    LET m == {i \in 1..Len(coll) : coll[i].id = id}
    IN IF m = {} THEN 0 ELSE CHOOSE i \in m : \A j \in m : i <= j

(* find_one: the first document with the id, or None (NoDoc).              *)
find_one(coll, id) == IF FirstMatch(coll, id) = 0 THEN NoDoc ELSE coll[FirstMatch(coll, id)]

(* delete_one: the first document with the id is removed.                  *)
delete_one(coll, id) ==
    LET i == FirstMatch(coll, id)
    IN IF i = 0 THEN [deleted_count |-> 0, coll |-> coll]
       ELSE [deleted_count |-> 1,
             coll |-> SubSeq(coll, 1, i - 1) \o SubSeq(coll, i + 1, Len(coll))]

(* replace_one: the first document with the id takes the fields of data    *)
(* and keeps its _id; modified_count is 0 when nothing matched or the      *)
(* document already had these fields.                                      *)
replace_one(coll, id, data) ==
    LET i   == FirstMatch(coll, id)
        new == [data EXCEPT !.oid = coll[i].oid]
    IN IF i = 0 \/ new = coll[i] THEN [modified_count |-> 0, coll |-> coll]
       ELSE [modified_count |-> 1, coll |-> [coll EXCEPT ![i] = new]]

(* get_interactions, lines 228-280: for each purchase, in order, one row   *)
(* per user document with its user_id and per item with its product_id     *)
(* ($lookup, $unwind); a purchase without such a user or item gives no     *)
(* row.  db.items is the catalog; no handler writes it.                    *)
RECURSIVE interaction_rows(_, _, _)
interaction_rows(users, purchases, i) ==
    IF i > Len(purchases) THEN <<>>
    ELSE LET p  == purchases[i]
             nu == Cardinality({j \in 1..Len(users) : users[j].user_id = p.user_id})
             ni == Cardinality({it \in Catalog : it.product_id = p.product_id})
         IN [k \in 1..(nu * ni) |-> Row(p.user_id, p.product_id)]
            \o interaction_rows(users, purchases, i + 1)

get_interactions(users, purchases) == interaction_rows(users, purchases, 1)

(* The database at the start: three users, the third without a purchase.   *)
InitUsers == <<Stored(UserData(1)), Stored(UserData(2)), Stored(UserData(3))>>

InitPurchases ==
    <<Stored(PurchaseData(1, 10, 1, 1)), Stored(PurchaseData(2, 11, 1, 1)),
      Stored(PurchaseData(3, 20, 2, 1))>>

(* The rows /interactions returns at the start.                            *)
InitialFeed == get_interactions(InitUsers, InitPurchases)

(* One user and one purchase are created in a behaviour at most.           *)
MaxUsers == Len(InitUsers) + 1
MaxPurchases == Len(InitPurchases) + 1

(* The documents the calls of the user service address.                    *)
UserIds == {1}
PurchaseIds == {1}
Quantities == {1, 2}

(* cache_key = f"user:{user_id}" (line 114), f"purchase:{purchase_id}"     *)
(* (line 174).                                                             *)
user_key(user_id) == "user:" \o ToString(user_id)
purchase_key(purchase_id) == "purchase:" \o ToString(purchase_id)
UsKeys == {user_key(u) : u \in UserIds} \cup {purchase_key(p) : p \in PurchaseIds}

(* json.dumps of a document: an ObjectId is not JSON serializable          *)
(* (TypeError).                                                            *)
dumps_doc(doc) ==
    IF doc.oid # NoId THEN [err |-> TRUE, raw |-> <<>>]
    ELSE [err |-> FALSE,
          raw |-> <<"coll", doc.coll, "id", doc.id, "user_id", doc.user_id,
                    "product_id", doc.product_id, "quantity", doc.quantity>>]

(* The empty dict _get_cached_data returns when it has nothing.            *)
EmptyDict == NoDoc

(* _get_cached_data, lines 56-71.  redis_client is the synchronous         *)
(* redis.Redis (lines 19-21): when redis_client.get raises a RedisError    *)
(* the except clause logs it and {} is returned; when it returns (bytes or *)
(* None), awaiting what it returned raises TypeError, which the except     *)
(* clause does not name.  GET changes nothing in the store.                *)
get_cached_data(cache, key, t, redis_ok) ==
    IF ~redis_ok THEN [raised |-> FALSE, data |-> EmptyDict]
    ELSE [raised |-> TRUE, data |-> EmptyDict]

(* _cache_data, lines 74-85.  json.dumps(data) is evaluated first and      *)
(* raises for a document with an _id, before Redis is called.  Otherwise   *)
(* setex runs: a RedisError is logged and swallowed; a successful setex    *)
(* has written the entry, and awaiting its result (True) raises TypeError. *)
cache_data(cache, key, data, t, redis_ok) ==
    IF dumps_doc(data).err THEN [raised |-> TRUE, cache |-> cache]
    ELSE IF ~redis_ok THEN [raised |-> FALSE, cache |-> cache]
    ELSE [raised |-> TRUE,
          cache |-> redis_setex(cache, key, TTL, dumps_doc(data).raw, t, 1)]

(* The answers of the handlers.                                            *)
NotFound == [status |-> 404, doc |-> NoDoc]
Found(doc) == [status |-> 200, doc |-> doc]
Raised == [status |-> 500, doc |-> NoDoc]
NoAnswer == [status |-> 0, doc |-> NoDoc]

(* One call of get_user / get_purchase, as it starts: where it stands (pc: *)
(* find, suspended on find_one before the database has read; read, the     *)
(* reply is on its way; done), collection and id it reads, what            *)
(* _get_cached_data and find_one gave it, whether its cache read met a     *)
(* Redis error (getErr), whether it changed the cache (wrote), whether it  *)
(* started after a successful update or delete of its document (after),    *)
(* whether its answer is what the database held when the call read, a      *)
(* moment after the call started (fresh), and its answer.                  *)
IdleGet ==
    [pc |-> "idle", coll |-> "none", id |-> 0, cached |-> EmptyDict, found |-> NoDoc,
     getErr |-> FALSE, wrote |-> FALSE, after |-> FALSE, fresh |-> TRUE, answer |-> NoAnswer]

(* The user service before any call: the initial database, nothing cached, *)
(* no get started (gets lists the gets in the order they start).  target   *)
(* is the document the calls of a behaviour address (none: the behaviour   *)
(* only records purchases).  written: a successful update or delete has    *)
(* happened.                                                               *)
InitUS ==
    [target |-> <<"none", 0>>,
     users |-> InitUsers,
     purchases |-> InitPurchases,
     cache |-> [k \in UsKeys |-> NoEntry],
     written |-> FALSE,
     gets |-> <<>>]

NoRank == [profile |-> <<>>, matrix |-> <<>>, k |-> 0, out |-> <<>>, raised |-> FALSE, done |-> FALSE]

Init ==
    /\ now = 0
    /\ ticks = 0
    /\ store = [k \in Keys |-> NoEntry]
    /\ feed = InitialFeed
    /\ reqs = [r \in ReqIds |-> IdleReq]
    /\ started = 0
    /\ wcount = 0
    /\ faults = 0
    /\ us = InitUS
    /\ rk = NoRank

(* The newest write to key so far: the serial number of the last setex on  *)
(* the key that returned (0: none).                                        *)
LastWrite(key) ==
    LET ws == {reqs[q].wid : q \in {x \in DOMAIN reqs : reqs[x].wid > 0 /\ KeyOf(x) = key}}
    IN IF ws = {} THEN 0 ELSE CHOOSE w \in ws : \A v \in ws : v <= w

(* get_recommendations, lines 64-69 and the send of line 73: the cache     *)
(* read; a hit returns, a miss issues the call to the service.  redis_ok   *)
(* FALSE: redis_client.get raises, and nothing catches it.  The requests   *)
(* of one behaviour address one user (the first request's).                *)
Request(r, u, n, redis_ok) ==
    /\ r = started + 1
    /\ r \in DOMAIN reqs
    /\ r = 1 \/ u = reqs[1].user
    /\ started' = r
    /\ redis_ok \/ faults < MaxFaults
    /\ faults' = IF redis_ok THEN faults ELSE faults + 1
    /\ LET key    == cache_key(u, n)
           cached == redis_get(store, key, now)
           c      == on_cached(cached)
           base   == [IdleReq EXCEPT !.user = u, !.num = n,
                                     !.seenWid = store[key].wid, !.lastWid = LastWrite(key)]
       IN reqs' = [reqs EXCEPT ![r] =
             IF ~redis_ok
             THEN [base EXCEPT !.pc = "done", !.path = "get_raised", !.result = Unhandled]
             ELSE IF c.hit
             THEN [base EXCEPT !.pc = "done", !.path = "hit", !.seenRaw = cached,
                               !.result = c.result]
             ELSE [base EXCEPT !.pc = "await", !.path = "miss", !.calls = 1,
                               !.overlap = {q \in DOMAIN reqs : InFlight(q) /\ KeyOf(q) = key}]]
    /\ UNCHANGED <<now, ticks, store, feed, wcount, rk, us>>

(* The recommendation service handles the call (content_recommend on the   *)
(* feed as it is now: its 200 carries the JSON body, its 500 does not), or *)
(* the call fails: no answer at all (transport), or an answer of the       *)
(* service's front.                                                        *)
Serve(r, outcome) ==
    /\ reqs[r].pc = "await"
    /\ outcome.kind = "ok" \/ faults < MaxFaults
    /\ faults' = IF outcome.kind = "ok" THEN faults ELSE faults + 1
    /\ \E a \in IF outcome.kind = "ok"
                 THEN content_recommends(reqs[r].user, query_top(request_params(reqs[r].num)), feed)
                 ELSE {[status |-> outcome.status, body |-> NoBody]} :
          reqs' = [reqs EXCEPT ![r].pc = "responded",
                               ![r].resp =
             IF outcome.kind = "transport"
             THEN [kind |-> "transport", status |-> 0, body |-> NoBody, json |-> FALSE]
             ELSE [kind |-> "http", status |-> a.status, body |-> a.body,
                   json |-> (outcome.kind = "ok" /\ a.status = 200)]]
    /\ UNCHANGED <<now, ticks, store, feed, started, wcount, rk, us>>

(* get_recommendations, lines 73-85, from the answer on.  redis_ok FALSE:  *)
(* redis_client.setex raises, and nothing catches it.                      *)
Receive(r, redis_ok) ==
    /\ reqs[r].pc = "responded"
    /\ redis_ok \/ (on_response(reqs[r].resp).write /\ faults < MaxFaults)
    /\ faults' = IF redis_ok THEN faults ELSE faults + 1
    /\ LET q   == reqs[r]
           key == cache_key(q.user, q.num)
           h   == on_response(q.resp)
           st2 == redis_setex(store, key, TTL, json_dumps(q.resp.body), now, wcount + 1)
           chg == {k \in Keys : st2[k] # store[k]}
       IN IF ~h.write
          THEN /\ reqs' = [reqs EXCEPT ![r].pc = "done", ![r].result = h.result]
               /\ UNCHANGED <<store, wcount>>
          ELSE IF ~redis_ok
          THEN /\ reqs' = [reqs EXCEPT ![r].pc = "done", ![r].path = "setex_raised",
                                       ![r].result = Unhandled]
               /\ UNCHANGED <<store, wcount>>
          ELSE /\ wcount' = wcount + 1
               /\ store' = st2
               /\ reqs' = [reqs EXCEPT ![r].pc = "done", ![r].wid = wcount + 1,
                                       ![r].changed = chg,
                                       ![r].wroteTtl = IF key \in chg THEN st2[key].expires - now ELSE 0,
                                       ![r].wroteVal = IF key \in chg THEN st2[key].value ELSE None,
                                       ![r].result = h.result]
    /\ UNCHANGED <<now, ticks, feed, started, rk, us>>

(* The clock advances: to just inside, or just past, one TTL.              *)
Tick(d) ==
    /\ ticks < MaxTicks
    /\ ticks' = ticks + 1
    /\ now' = now + d
    /\ UNCHANGED <<store, feed, reqs, started, wcount, faults, rk, us>>

(* ---------------- the user service's database handlers ----------------- *)
(* /interactions as the database now answers it.                           *)
Interactions(u) == get_interactions(u.users, u.purchases)

(* The calls of one behaviour of the user service address one document     *)
(* (target); a behaviour without a target takes any call.                  *)
Targets(purchase_or_user, id) == {<<"none", 0>>, <<purchase_or_user, id>>}

(* create_user, lines 89-101: insert_one.                                  *)
CreateUser(user_id) ==
    /\ us.target \in Targets("user", user_id)
    /\ Len(us.users) < MaxUsers
    /\ us' = [us EXCEPT !.users = insert_one(us.users, UserData(user_id))]
    /\ feed' = Interactions(us')
    /\ UNCHANGED <<now, ticks, store, reqs, started, wcount, faults, rk>>

(* delete_user, lines 129-145: delete_one; deleted_count 0 is a 404.  The  *)
(* cache is not touched.                                                   *)
DeleteUser(user_id) ==
    LET result == delete_one(us.users, user_id)
    IN /\ us.target \in Targets("user", user_id)
       /\ us' = IF result.deleted_count > 0
                THEN [us EXCEPT !.users = result.coll, !.written = TRUE]
                ELSE us
       /\ feed' = Interactions(us')
       /\ UNCHANGED <<now, ticks, store, reqs, started, wcount, faults, rk>>

(* create_purchase, lines 149-161: insert_one.                             *)
CreatePurchase(purchase_id, product_id, user_id) ==
    /\ us.target \in Targets("purchase", purchase_id)
    /\ Len(us.purchases) < MaxPurchases
    /\ us' = [us EXCEPT !.purchases =
                 insert_one(us.purchases, PurchaseData(purchase_id, product_id, user_id, 1))]
    /\ feed' = Interactions(us')
    /\ UNCHANGED <<now, ticks, store, reqs, started, wcount, faults, rk>>

(* update_purchase, lines 189-206: replace_one; modified_count 0 is a 404. *)
(* The cache is not touched.                                               *)
UpdatePurchase(purchase_id, purchase_data) ==
    LET result == replace_one(us.purchases, purchase_id, purchase_data)
    IN /\ us.target \in Targets("purchase", purchase_id)
       /\ us' = IF result.modified_count > 0
                THEN [us EXCEPT !.purchases = result.coll, !.written = TRUE]
                ELSE us
       /\ feed' = Interactions(us')
       /\ UNCHANGED <<now, ticks, store, reqs, started, wcount, faults, rk>>

(* delete_purchase, lines 209-225: delete_one; deleted_count 0 is a 404.   *)
(* The cache is not touched.                                               *)
DeletePurchase(purchase_id) ==
    LET result == delete_one(us.purchases, purchase_id)
    IN /\ us.target \in Targets("purchase", purchase_id)
       /\ us' = IF result.deleted_count > 0
                THEN [us EXCEPT !.purchases = result.coll, !.written = TRUE]
                ELSE us
       /\ feed' = Interactions(us')
       /\ UNCHANGED <<now, ticks, store, reqs, started, wcount, faults, rk>>

(* In a behaviour of the client the user service records one purchase, the *)
(* first of user 3.                                                        *)
Next ==
    \/ \E r \in ReqIds, u \in ReqUsers, n \in ReqNums, ok \in BOOLEAN : Request(r, u, n, ok)
    \/ \E r \in ReqIds, o \in Outcomes : Serve(r, o)
    \/ \E r \in ReqIds, ok \in BOOLEAN : Receive(r, ok)
    \/ \E d \in {TTL - 1, TTL + 1} : Tick(d)
    \/ CreatePurchase(4, 30, 3)

Spec == Init /\ [][Next]_vars

(* The client with one request more than Spec, all for user 1 with the     *)
(* default count: two misses can both write before a third request reads.  *)
HitReqIds == 1..(MaxReqs + 1)

InitHits ==
    /\ now = 0
    /\ ticks = 0
    /\ store = [k \in Keys |-> NoEntry]
    /\ feed = InitialFeed
    /\ reqs = [r \in HitReqIds |-> IdleReq]
    /\ started = 0
    /\ wcount = 0
    /\ faults = 0
    /\ us = InitUS
    /\ rk = NoRank

NextHits ==
    \/ \E r \in HitReqIds, ok \in BOOLEAN : Request(r, 1, DefaultNum, ok)
    \/ \E r \in HitReqIds, o \in Outcomes : Serve(r, o)
    \/ \E r \in HitReqIds, ok \in BOOLEAN : Receive(r, ok)
    \/ \E d \in {TTL - 1, TTL + 1} : Tick(d)
    \/ CreatePurchase(4, 30, 3)

SpecHits == InitHits /\ [][NextHits]_vars

(* ------------- requests with a count that is not positive ------------- *)
(* num_recommendations is declared int (line 50): any integer is accepted. *)
BadNums == {0 - 1, 0}

NextBadNum ==
    \/ \E r \in ReqIds, u \in ReqUsers, n \in BadNums, ok \in BOOLEAN : Request(r, u, n, ok)
    \/ \E r \in ReqIds, o \in OutcomesFront : Serve(r, o)
    \/ \E r \in ReqIds, ok \in BOOLEAN : Receive(r, ok)

SpecBadNum == Init /\ [][NextBadNum]_vars

(* ------------- the Ranker alone, on bounded inputs -------------------- *)
RankWords == {"x", "y"}
(* A row or a profile: per word, weight 0 or 1 (Unit).                     *)
RankVecs == [RankWords -> {0, Unit}]
RankName(i) == "item " \o ToString(i)
RankNames(n) == [i \in 1..n |-> RankName(i)]
RankMapping(n) == [f \in {RankName(i) : i \in 1..n} |-> 100 + (CHOOSE i \in 1..n : RankName(i) = f)]

InitRank ==
    /\ now = 0
    /\ ticks = 0
    /\ store = [k \in Keys |-> NoEntry]
    /\ feed = InitialFeed
    /\ reqs = [r \in ReqIds |-> IdleReq]
    /\ started = 0
    /\ wcount = 0
    /\ faults = 0
    /\ us = InitUS
    /\ \E n \in 0..MaxN, k \in (0 - MaxK)..MaxK :
         \E m \in [1..n -> RankVecs], pr \in RankVecs :
            rk = [NoRank EXCEPT !.profile = pr, !.matrix = m, !.k = k]

(* One call of recommend_content_based: it raises, or returns one of the   *)
(* lists the order of equal scores allows.                                 *)
Rank ==
    /\ ~rk.done
    /\ LET res == recommend_content_based(rk.profile, rk.matrix, rk.k,
                      RankNames(Len(rk.matrix)), RankMapping(Len(rk.matrix)))
       IN IF res.err
          THEN rk' = [rk EXCEPT !.done = TRUE, !.raised = TRUE]
          ELSE \E out \in res.outs : rk' = [rk EXCEPT !.done = TRUE, !.out = out]
    /\ UNCHANGED <<now, ticks, store, feed, reqs, started, wcount, faults, us>>

NextRank == Rank

SpecRank == InitRank /\ [][NextRank]_vars

(* ------------- content_recommend alone, on bounded feeds --------------- *)
(* GET /recommend/{user_id}?top_recommendations=K while db.purchases holds *)
(* up to MaxN purchases of users 1 and 2 over the catalog.                 *)
FeedUsers == {1, 2}
ProductIds == {it.product_id : it \in Catalog}
PurchaseLists == UNION {[1..n -> FeedUsers \X ProductIds] : n \in 0..MaxN}
PurchasesOf(ps) == [i \in 1..Len(ps) |-> Stored(PurchaseData(i, ps[i][2], ps[i][1], 1))]

InitService ==
    /\ now = 0
    /\ ticks = 0
    /\ store = [k \in Keys |-> NoEntry]
    /\ reqs = [r \in ReqIds |-> IdleReq]
    /\ started = 0
    /\ wcount = 0
    /\ faults = 0
    /\ \E ps \in PurchaseLists : us = [InitUS EXCEPT !.purchases = PurchasesOf(ps)]
    /\ feed = Interactions(us)
    /\ \E u \in FeedUsers, k \in (0 - MaxK)..MaxK :
          rk = [user |-> u, k |-> k, status |-> 0, out |-> <<>>, done |-> FALSE]

Recommend ==
    /\ ~rk.done
    /\ \E a \in content_recommends(rk.user, rk.k, feed) :
          rk' = [rk EXCEPT !.done = TRUE, !.status = a.status, !.out = a.body.recommendations]
    /\ UNCHANGED <<now, ticks, store, feed, reqs, started, wcount, faults, us>>

NextService == Recommend

SpecService == InitService /\ [][NextService]_vars

(* ------------- the user service: get, create, update, delete ----------- *)
(* The ids a get can ask for, per collection.                              *)
GetTargets == {<<"user", u>> : u \in UserIds} \cup {<<"purchase", p>> : p \in PurchaseIds}

InitUserService ==
    /\ now = 0
    /\ ticks = 0
    /\ store = [k \in Keys |-> NoEntry]
    /\ feed = InitialFeed
    /\ reqs = [r \in ReqIds |-> IdleReq]
    /\ started = 0
    /\ wcount = 0
    /\ faults = 0
    /\ rk = NoRank
    /\ \E t \in GetTargets : us = [InitUS EXCEPT !.target = t]

KeyFor(coll, id) == IF coll = "user" THEN user_key(id) ELSE purchase_key(id)

(* The collection a get reads.                                             *)
Collection(coll) == IF coll = "user" THEN us.users ELSE us.purchases

(* What the database alone answers to a get now.                           *)
DbAnswer(coll, id) ==
    LET doc == find_one(Collection(coll), id)
    IN IF doc = NoDoc THEN NotFound ELSE Found(doc)

(* get_user lines 114-118, get_purchase lines 174-178: _get_cached_data;   *)
(* its TypeError ends the call (500); a non-empty cached document would be *)
(* the answer; {} goes on to the database.  redis_ok FALSE: Redis raises.  *)
GetStart(r, coll, id, redis_ok) ==
    /\ r = started + 1
    /\ r \in ReqIds
    /\ <<coll, id>> = us.target
    /\ started' = r
    /\ redis_ok \/ faults < MaxFaults
    /\ faults' = IF redis_ok THEN faults ELSE faults + 1
    /\ LET key  == KeyFor(coll, id)
           c    == get_cached_data(us.cache, key, now, redis_ok)
           base == [IdleGet EXCEPT !.coll = coll, !.id = id, !.getErr = ~redis_ok,
                                   !.cached = c.data, !.after = us.written]
       IN us' = [us EXCEPT !.gets = Append(us.gets,
             IF c.raised
             THEN [base EXCEPT !.pc = "done", !.answer = Raised, !.fresh = FALSE]
             ELSE IF c.data # EmptyDict
             THEN [base EXCEPT !.pc = "done", !.answer = Found(c.data),
                               !.fresh = (Found(c.data) = DbAnswer(coll, id))]
             ELSE [base EXCEPT !.pc = "find"])]
    /\ UNCHANGED <<now, ticks, store, feed, reqs, wcount, rk>>

(* The database executes the find_one of get_user line 120, get_purchase   *)
(* line 180, while the handler is suspended on its await: the reply holds  *)
(* the first document with the id at this moment, or None.  Other handlers *)
(* run before the reply reaches the handler.                               *)
DbRead(r) ==
    /\ r <= Len(us.gets)
    /\ us.gets[r].pc = "find"
    /\ us' = [us EXCEPT !.gets[r] =
                [@ EXCEPT !.pc = "read",
                          !.found = find_one(Collection(us.gets[r].coll), us.gets[r].id)]]
    /\ UNCHANGED <<now, ticks, store, feed, reqs, started, wcount, faults, rk>>

(* get_user lines 120-126, get_purchase lines 180-186, from the reply of   *)
(* find_one on: no document is a 404; a document goes to _cache_data,      *)
(* whose TypeError ends the call (500) before the return.  redis_ok FALSE: *)
(* setex, when it is reached, raises a RedisError.                         *)
GetFind(r, redis_ok) ==
    /\ r <= Len(us.gets)
    /\ us.gets[r].pc = "read"
    /\ LET g   == us.gets[r]
           key == KeyFor(g.coll, g.id)
           doc == g.found
           c   == cache_data(us.cache, key, doc, now, redis_ok)
           setex_called == doc # NoDoc /\ ~dumps_doc(doc).err
       IN /\ redis_ok \/ (setex_called /\ faults < MaxFaults)
          /\ faults' = IF redis_ok THEN faults ELSE faults + 1
          /\ us' = IF doc = NoDoc
                   THEN [us EXCEPT !.gets[r] =
                           [g EXCEPT !.pc = "done", !.answer = NotFound, !.fresh = TRUE]]
                   ELSE [us EXCEPT !.cache = c.cache,
                                   !.gets[r] =
                           [g EXCEPT !.pc = "done",
                                     !.wrote = (c.cache # us.cache),
                                     !.answer = IF c.raised THEN Raised ELSE Found(doc),
                                     !.fresh = ~c.raised]]
    /\ UNCHANGED <<now, ticks, store, feed, reqs, started, wcount, rk>>

(* What update_purchase is sent: the purchase with another quantity or     *)
(* another product.                                                        *)
UpdateData(purchase_id) == {PurchaseData(purchase_id, p, 1, q) : p \in {10, 30}, q \in Quantities}

(* Purchases create_purchase is sent: of a user and an item that exist, or *)
(* of a user (5) or an item (99) that do not.                              *)
NewProducts == {30, 99}
NewUsers == {1, 5}

NextUserService ==
    \/ \E r \in ReqIds, t \in GetTargets, ok \in BOOLEAN : GetStart(r, t[1], t[2], ok)
    \/ \E r \in ReqIds : DbRead(r)
    \/ \E r \in ReqIds, ok \in BOOLEAN : GetFind(r, ok)
    \/ \E u \in UserIds : CreateUser(u)
    \/ \E u \in UserIds : DeleteUser(u)
    \/ \E p \in PurchaseIds, i \in NewProducts, u \in NewUsers : CreatePurchase(p, i, u)
    \/ \E p \in PurchaseIds : \E d \in UpdateData(p) : UpdatePurchase(p, d)
    \/ \E p \in PurchaseIds : DeletePurchase(p)

SpecUserService == InitUserService /\ [][NextUserService]_vars

(* ============================== claims ================================ *)
DoneOk(r) ==
    /\ reqs[r].pc = "done"
    /\ reqs[r].path = "miss"
    /\ reqs[r].resp.kind = "http"
    /\ reqs[r].resp.status = 200

ServiceFailed(r) ==
    /\ reqs[r].pc = "done"
    /\ reqs[r].path = "miss"
    /\ \/ reqs[r].resp.kind = "transport"
       \/ reqs[r].resp.kind = "http" /\ reqs[r].resp.status >= 400

ClaimedKey(r) == <<"user_recommendations", reqs[r].user>>

(* A response of the shape {user_id, recommendations: [{id, name}]}.       *)
ValidResponse(res, u) ==
    /\ res.kind = "ok"
    /\ res.body.user_id = u
    /\ \A i \in 1..Len(res.body.recommendations) :
          /\ res.body.recommendations[i].id \in Nat
          /\ res.body.recommendations[i].name \in STRING

(* C1: a request whose cache read hits returns the deserialized cached     *)
(* value (its serialization is the bytes read), never calls the            *)
(* recommendation service and writes nothing to the cache.                 *)
C1_HitReturnsCached ==
    \A r \in ReqIds :
       reqs[r].path = "hit" =>
          /\ reqs[r].pc = "done"
          /\ reqs[r].result.kind = "ok"
          /\ reqs[r].seenRaw # None
          /\ json_dumps(reqs[r].result.body) = reqs[r].seenRaw
          /\ reqs[r].calls = 0
          /\ reqs[r].resp = NoResp
          /\ reqs[r].wid = 0
          /\ reqs[r].changed = {}

C1_Witness ==
    \E r \in ReqIds :
       /\ reqs[r].path = "hit"
       /\ Len(reqs[r].result.body.recommendations) > 0

(* C2: a request during which the key-value store fails, on the read or    *)
(* on the write, still returns recommendations; the failure is never       *)
(* surfaced as an error.                                                   *)
C2_StoreFailureInvisible ==
    \A r \in ReqIds :
       reqs[r].path \in {"get_raised", "setex_raised"} => reqs[r].result.kind = "ok"

(* C3: a request for (user, count) served from the cache gets a value      *)
(* that was computed for the same user and the same count.                 *)
C3_KeyedByUserAndCount ==
    \A r \in ReqIds :
       reqs[r].path = "hit" =>
          \E q \in ReqIds :
             /\ reqs[q].wid = reqs[r].seenWid
             /\ reqs[q].wid > 0
             /\ reqs[q].user = reqs[r].user
             /\ reqs[q].num = reqs[r].num

(* C4: a request that missed, got a successful answer and whose write the  *)
(* store accepted has called the service once, has written the serialized  *)
(* answer under its own key, and only there, with a TTL of 3600 seconds,   *)
(* and has returned exactly the value it wrote.                            *)
C4_MissWritesAndReturns ==
    \A r \in ReqIds :
       DoneOk(r) =>
          /\ reqs[r].calls = 1
          /\ reqs[r].wid > 0
          /\ reqs[r].changed = {ClaimedKey(r)}
          /\ reqs[r].wroteTtl = 3600
          /\ reqs[r].wroteVal = json_dumps(reqs[r].resp.body)
          /\ reqs[r].result.kind = "ok"
          /\ reqs[r].result.body = json_loads(reqs[r].wroteVal)
          /\ reqs[r].result.body = reqs[r].resp.body

C4_Witness ==
    \E r \in ReqIds :
       /\ DoneOk(r)
       /\ reqs[r].wid > 0
       /\ Len(reqs[r].result.body.recommendations) > 0

(* C5: two requests for one key that both miss before either writes (and   *)
(* both get a successful answer and an accepted write) both call the       *)
(* service, both write the cache, both return a valid response; while no   *)
(* write has followed theirs the store holds, for that key, the value of   *)
(* the later of the two writes, expiring 3600 seconds after it.            *)
C5_ConcurrentMisses ==
    \A r1, r2 \in ReqIds :
       (r1 \in reqs[r2].overlap /\ DoneOk(r1) /\ DoneOk(r2)) =>
          LET key   == ClaimedKey(r1)
              later == IF reqs[r1].wid > reqs[r2].wid THEN r1 ELSE r2
          IN /\ reqs[r1].calls = 1 /\ reqs[r2].calls = 1
             /\ reqs[r1].changed = {key} /\ reqs[r2].changed = {key}
             /\ reqs[r1].wid # reqs[r2].wid
             /\ ValidResponse(reqs[r1].result, reqs[r1].user)
             /\ ValidResponse(reqs[r2].result, reqs[r2].user)
             /\ wcount = reqs[later].wid =>
                   /\ store[key].present
                   /\ store[key].wid = reqs[later].wid
                   /\ store[key].value = json_dumps(reqs[later].result.body)
                   /\ store[key].expires = store[key].at + 3600

C5_Witness ==
    \E r1, r2 \in ReqIds :
       /\ r1 \in reqs[r2].overlap
       /\ DoneOk(r1) /\ DoneOk(r2)
       /\ reqs[r1].result.body # reqs[r2].result.body
       /\ wcount = 2

(* The write a request observed: the one it read on a hit, its own on a    *)
(* miss it completed.                                                      *)
Observed(r) ==
    IF reqs[r].path = "hit" THEN reqs[r].seenWid
    ELSE IF DoneOk(r) THEN reqs[r].wid
    ELSE 0

(* C6 as stated: two requests with the same key parameters that miss       *)
(* concurrently observe the same value, even when the interaction data     *)
(* changes between their computations.                                     *)
C6_SameValueUnderConcurrentMisses ==
    \A r1, r2 \in ReqIds :
       (/\ r1 \in reqs[r2].overlap
        /\ reqs[r1].user = reqs[r2].user /\ reqs[r1].num = reqs[r2].num
        /\ reqs[r1].result.kind = "ok" /\ reqs[r2].result.kind = "ok")
       => reqs[r1].result.body = reqs[r2].result.body

(* C6 amended: two requests answered from the same cache entry (the miss   *)
(* that wrote it, the hits served from it) observe the same value.         *)
C6_SameEntrySameValue ==
    \A r1, r2 \in ReqIds :
       (/\ Observed(r1) > 0
        /\ Observed(r1) = Observed(r2)
        /\ reqs[r1].result.kind = "ok" /\ reqs[r2].result.kind = "ok")
       => reqs[r1].result.body = reqs[r2].result.body

C6_Witness ==
    \E r1, r2 \in ReqIds :
       /\ r1 # r2
       /\ DoneOk(r1)
       /\ reqs[r2].path = "hit"
       /\ Observed(r1) = Observed(r2)
       /\ Len(reqs[r2].result.body.recommendations) > 0

(* C7: every entry expires 3600 seconds after its write; a lookup hits     *)
(* only within that time and leaves the store as it is; a lookup of an     *)
(* entry 3601 seconds or more after its write misses and calls the         *)
(* service; no step removes an entry or changes it other than by a new     *)
(* write.                                                                  *)
C7_TTLExpiry ==
    /\ [](\A k \in Keys : store[k].present => store[k].expires = store[k].at + 3600)
    /\ [][\A r \in ReqIds :
            (reqs[r].pc = "idle" /\ reqs'[r].pc # "idle" /\ reqs'[r].path # "get_raised") =>
               LET e == store[cache_key(reqs'[r].user, reqs'[r].num)]
               IN /\ reqs'[r].path = "hit" =>
                        (e.present /\ now <= e.at + 3600 /\ store' = store)
                  /\ (e.present /\ now >= e.at + 3601) =>
                        (reqs'[r].path = "miss" /\ reqs'[r].pc = "await" /\ reqs'[r].calls = 1)]_vars
    /\ [][\A k \in Keys :
            store[k].present =>
               /\ store'[k].present
               /\ store'[k] = store[k] \/ store'[k].wid > store[k].wid]_vars

C7_Witness ==
    \E r \in ReqIds :
       /\ reqs[r].path = "miss"
       /\ reqs[r].seenWid > 0
       /\ DoneOk(r)
       /\ now = 3601

(* C8: a hit returns the value stored by the most recent write to its key: *)
(* the entry it read is the one the last setex on the key stored, and the  *)
(* value returned is the one that setex was given.                         *)
C8_HitIsLastWrite ==
    \A r \in DOMAIN reqs :
       reqs[r].path = "hit" =>
          /\ reqs[r].lastWid > 0
          /\ reqs[r].seenWid = reqs[r].lastWid
          /\ \E q \in DOMAIN reqs :
                /\ reqs[q].wid = reqs[r].lastWid
                /\ json_dumps(reqs[r].result.body) = reqs[q].wroteVal
                /\ reqs[r].result.body = reqs[q].resp.body

(* Two misses wrote different values to the key, one after the other, and  *)
(* a third request hit within the TTL of the second write: it returned the *)
(* second value.                                                           *)
C8_Witness ==
    \E r, p, q \in DOMAIN reqs :
       /\ reqs[r].path = "hit"
       /\ reqs[p].wid > 0
       /\ reqs[q].wid > reqs[p].wid
       /\ KeyOf(p) = KeyOf(r) /\ KeyOf(q) = KeyOf(r)
       /\ reqs[r].lastWid = reqs[q].wid
       /\ reqs[p].resp.body # reqs[q].resp.body
       /\ reqs[r].result.body = reqs[q].resp.body

(* C9: when the recommendation service fails on a miss, the request ends   *)
(* in an error (carrying the upstream status when there is one) and has    *)
(* written nothing; a later request hits only on an entry some other       *)
(* request wrote in between.                                               *)
C9_ServiceFailurePropagates ==
    \A r \in ReqIds :
       ServiceFailed(r) =>
          /\ reqs[r].result.kind = "error"
          /\ reqs[r].resp.kind = "http" => reqs[r].result.status = reqs[r].resp.status
          /\ reqs[r].wid = 0
          /\ reqs[r].changed = {}
          /\ \A r2 \in ReqIds :
                (r2 > r /\ reqs[r2].path = "hit") => reqs[r2].seenWid # reqs[r].seenWid

C9_Witness ==
    \E r, r2 \in ReqIds :
       /\ ServiceFailed(r)
       /\ reqs[r].resp.status = 503
       /\ r2 > r
       /\ reqs[r2].path = "miss"
       /\ reqs[r2].seenWid = reqs[r].seenWid

(* C10: the Ranker, when it returns, returns at most K items, and none for *)
(* K <= 0.                                                                 *)
C10_AtMostK ==
    (rk.done /\ ~rk.raised) =>
       /\ rk.k > 0 => Len(rk.out) <= rk.k
       /\ rk.k <= 0 => rk.out = <<>>

(* Row and score of an item the Ranker returned in SpecRank.               *)
RowOf(item) == item.id - 100
ScoreOf(item) == linear_kernel(rk.profile, rk.matrix).sim[RowOf(item)]

(* C11: two returned items with equal similarity scores appear in their    *)
(* original row order, the lower row index first.                          *)
C11_TiesInRowOrder ==
    (rk.done /\ ~rk.raised) =>
       \A p, q \in 1..Len(rk.out) :
          (p < q /\ ScoreOf(rk.out[p]) = ScoreOf(rk.out[q])) =>
             RowOf(rk.out[p]) < RowOf(rk.out[q])

(* Request r missed and the recommendation service itself answered it (no  *)
(* transport failure, no error of its front, no Redis failure).            *)
ServiceAnswered(r) ==
    /\ reqs[r].pc = "done"
    /\ reqs[r].path = "miss"
    /\ reqs[r].resp.kind = "http"
    /\ reqs[r].resp.status \notin UpstreamErrors

(* C12: a request for a cold-start user, one with zero interaction rows,   *)
(* gets a successful response with an empty recommendation list, not an    *)
(* error.                                                                  *)
C12_ColdStartEmptyList ==
    \A r \in ReqIds :
       (ServiceAnswered(r) /\ user_interactions(reqs[r].user, feed) = <<>>) =>
          /\ reqs[r].result.kind = "ok"
          /\ reqs[r].result.body.recommendations = <<>>

(* C13: a query whose count is negative, or whose user id is unknown (no   *)
(* row of the feed is the user's), yields an error status and writes       *)
(* nothing to the cache.                                                   *)
C13_InvalidQueryRejected ==
    \A r \in ReqIds :
       (/\ reqs[r].pc = "done"
        /\ \/ reqs[r].num < 0
           \/ user_interactions(reqs[r].user, feed) = <<>>) =>
          /\ reqs[r].result.kind = "error"
          /\ reqs[r].wid = 0

(* N: the unique combined-feature strings of a feed.                       *)
Candidates(user_data) ==
    unique([i \in 1..Len(user_data) |-> combined_features(user_data[i])])

(* The feeds the service can have read so far: the feed only grows.        *)
FeedsSoFar == {SubSeq(feed, 1, n) : n \in Len(InitialFeed)..Len(feed)}

(* C14: on a cache miss the service answers, a request with count K over   *)
(* N unique candidate items returns min(K, N) recommendations.             *)
C14_CountIsRankerK ==
    \A r \in ReqIds :
       (ServiceAnswered(r) /\ reqs[r].result.kind = "ok") =>
          \E f \in FeedsSoFar :
             Len(reqs[r].result.body.recommendations) = Min(reqs[r].num, Len(Candidates(f)))

(* Rows of the matrix the Ranker did not return.                           *)
NotReturned == {i \in 1..Len(rk.matrix) : \A p \in 1..Len(rk.out) : RowOf(rk.out[p]) # i}
RowScore(i) == linear_kernel(rk.profile, rk.matrix).sim[i]

(* C15: the Ranker's output (when the call returns: the matrix has a row)  *)
(* is ordered by non-increasing similarity score, every returned item      *)
(* scores at least as much as every row not returned, and for K >= 1 the   *)
(* output is the min(K, N) rows that score highest.                        *)
C15_TopKDescending ==
    (rk.done /\ ~rk.raised) =>
       /\ \A p, q \in 1..Len(rk.out) : p < q => ScoreOf(rk.out[p]) >= ScoreOf(rk.out[q])
       /\ \A p \in 1..Len(rk.out) : \A i \in NotReturned : ScoreOf(rk.out[p]) >= RowScore(i)
       /\ rk.k >= 1 => Len(rk.out) = Min(rk.k, Len(rk.matrix))

(* Three rows with three different scores, stored lowest first, K = 2: the *)
(* two best come out, best first, and the worst is left out.               *)
C15_Witness ==
    /\ rk.done
    /\ ~rk.raised
    /\ rk.k = 2
    /\ Len(rk.matrix) = 3
    /\ RowScore(1) < RowScore(2)
    /\ RowScore(2) < RowScore(3)
    /\ Len(rk.out) = 2
    /\ RowOf(rk.out[1]) = 3
    /\ RowOf(rk.out[2]) = 2

(* C16: when K exceeds the number N of unique candidate rows the Ranker    *)
(* returns all N rows without error; its output never has more than N      *)
(* items and never repeats a combined-feature string.                      *)
C16_AllRowsWhenKExceedsN ==
    LET cands == Candidates(feed)
        N     == Len(cands)
    IN (rk.done /\ user_interactions(rk.user, feed) # <<>>) =>
          /\ rk.status = 200
          /\ Len(rk.out) <= N
          /\ \A p, q \in 1..Len(rk.out) : p # q => rk.out[p].name # rk.out[q].name
          /\ rk.k > N =>
                /\ Len(rk.out) = N
                /\ {rk.out[p].name : p \in 1..N} = {cands[i] : i \in 1..N}

(* A feed of three rows, two of them with the same combined features, and  *)
(* K = 3 > N = 2: both candidates are returned, each once.                 *)
C16_Witness ==
    /\ rk.done
    /\ rk.status = 200
    /\ Len(feed) = 3
    /\ Len(Candidates(feed)) = 2
    /\ rk.k = 3
    /\ Len(rk.out) = 2
    /\ rk.out[1].name # rk.out[2].name

(* C17: a get_purchase / get_user that starts after a successful           *)
(* update_purchase, delete_purchase or delete_user of its document         *)
(* reflects the change: it answers what the database holds (the updated    *)
(* record, or 404), never a stale cached record.                           *)
C17_GetReflectsWrite ==
    \A r \in 1..Len(us.gets) :
       LET g == us.gets[r]
       IN (g.pc = "done" /\ g.after) => g.fresh

(* C18: a Redis error in _get_cached_data is swallowed: it has returned    *)
(* the empty dict, and the get answers from the database as on a miss, the *)
(* document find_one returned, or 404 when there is none, with the cache   *)
(* left as it was.                                                         *)
C18_RedisErrorSwallowed ==
    \A r \in 1..Len(us.gets) :
       LET g == us.gets[r]
       IN g.getErr =>
             /\ g.cached = EmptyDict
             /\ g.pc \in {"find", "read", "done"}
             /\ ~g.wrote
             /\ g.pc = "done" =>
                   g.answer = IF g.found = NoDoc THEN NotFound ELSE Found(g.found)

====
